---- MODULE Spec2Model ----
(***************************************************************************)
(* The node lifecycle manager of ImageAlchemy:                             *)
(*   - BaseMiner.loop_until_registered / BaseMiner.loop                    *)
(*     (src/neurons/miners/default/base.py), the main thread;              *)
(*   - BackgroundTimer.run / background_loop (src/neurons/utils.py), the   *)
(*     timer thread, working on the same object (`self`).                  *)
(* The two threads share self.metagraph.  Python switches threads between  *)
(* statements, so each statement that reads or writes shared state is a    *)
(* step of its own.                                                        *)
(***************************************************************************)
EXTENDS Integers, Sequences, FiniteSets, TLC

(***************************************************************************)
(* Bounds of the model.                                                    *)
(***************************************************************************)
\* the lifecycle loop's step counter is followed up to this value
MaxStep == 6
\* the background worker's counter is followed up to this value
MaxBackgroundSteps == 2
\* the same counter where the timer thread is followed alone
MaxTimerSteps == 601

(***************************************************************************)
(* The registry (external): a snapshot is the ordered list of registered   *)
(* identities; metagraph.hotkeys and metagraph.uids are parallel, so one   *)
(* list stands for both.                                                   *)
(***************************************************************************)
\* self.wallet.hotkey.ss58_address
Me == "me"

\* the snapshots a sync of the registry can return
Snapshots ==
  { <<"a">>, <<"me", "a">>, <<"a", "me">>, <<"me", "a", "b">> }

\* Python's None for an index
None == -1

RECURSIVE IndexFrom(_, _, _)
\* list.index: the 0-based position of the first x in s at or after the
\* 1-based position i, None where Python raises ValueError
IndexFrom(s, x, i) ==
  IF i > Len(s) THEN None
  ELSE IF s[i] = x THEN i - 1
  ELSE IndexFrom(s, x, i + 1)

\* mutant of get_miner_index: index starts as 0 where the code starts it as None
get_miner_index_from_zero(hotkeys) ==
  IF IndexFrom(hotkeys, Me, 1) = None THEN 0 ELSE IndexFrom(hotkeys, Me, 1)

\* BaseMiner.get_miner_index on a snapshot
get_miner_index(hotkeys) == IndexFrom(hotkeys, Me, 1)

\* [0.0] * n
Zeros(n) == [i \in 1..n |-> 0]

\* weights[k] = 1.0 for a 0-based k that is in range
SetOne(w, k) == [w EXCEPT ![k + 1] = 1]

\* a 0-based index k is a valid subscript of the list s
InRange(k, s) == k >= 0 /\ k < Len(s)

(***************************************************************************)
(* The ConfigStore (external).  retrieve_public_file returns None when the *)
(* download or json.loads fails, else the parsed JSON object; an object is *)
(* the sequence of its <<key, value>> pairs in file order, the order a     *)
(* Python dict keeps.                                                      *)
(***************************************************************************)
\* retrieve_public_file returned None
NoFile == [file |-> FALSE, items |-> <<>>]

\* retrieve_public_file returned the parsed object
File(items) == [file |-> TRUE, items |-> items]

\* an entry of a blacklist or whitelist that has no "type" key
NoType == "missing"

\* what the fetch of a blacklist or whitelist can return
ListFiles ==
  { NoFile,
    File(<<>>),
    File(<< <<"k1", "hotkey">>, <<"k2", "coldkey">> >>),
    File(<< <<"k2", "hotkey">> >>),
    File(<< <<"k1", "hotkey">>, <<"k3", NoType>> >>) }

\* labels of the weight file, letter by letter
LabelA == <<"a">>
LabelC == <<"c">>
LabelManualB == <<"m", "a", "n", "u", "a", "l", "_", "b">>
LabelXManual == <<"x", "_", "m", "a", "n", "u", "a", "l">>
Manual == <<"m", "a", "n", "u", "a", "l">>

\* what the fetch of the reward-weight file can return; a weight is a whole
\* number here, the last one a number that a 32-bit float cannot hold
WeightFiles ==
  { NoFile,
    File(<< <<LabelA, 1>>, <<LabelManualB, 2>>, <<LabelC, 3>> >>),
    File(<< <<LabelXManual, 5>>, <<LabelC, 16777217>> >>) }

\* what the fetch of the settings file can return
SettingsFiles ==
  { NoFile,
    File(<<>>),
    File(<< <<"query_timeout", 7>>, <<"request_frequency", 9>> >>) }

\* Python truth of a fetched file: None and the empty object are false
Truthy(f) == f.file /\ Len(f.items) > 0

\* v["type"] raises KeyError for some entry
TypeMissing(f) == \E i \in DOMAIN f.items : f.items[i][2] = NoType

\* set([k for k, v in f.items() if v["type"] == t])
KeysOfType(f, t) == { f.items[i][1] : i \in { j \in DOMAIN f.items : f.items[j][2] = t } }

\* mutant of Contains: sub is looked for at the start of s only
Contains_at_start(s, sub) ==
  Len(s) >= Len(sub) /\ SubSeq(s, 1, Len(sub)) = sub

\* sub in s, for strings as sequences of letters
Contains(s, sub) ==
  \E i \in 1..(Len(s) - Len(sub) + 1) : SubSeq(s, i, i + Len(sub) - 1) = sub

RECURSIVE Unmanual(_)
\* [v for k, v in items if "manual" not in k]
Unmanual(items) ==
  IF items = <<>> THEN <<>>
  ELSE IF Contains(Head(items)[1], Manual) THEN Unmanual(Tail(items))
  ELSE <<Head(items)[2]>> \o Unmanual(Tail(items))

\* the conversion of a number to torch.float32: 24 significant bits, so a
\* whole number below 2^24 is kept and one from 2^24 up to 2^25 is rounded to
\* the nearest even number, a tie going to the even significand
Float32(v) ==
  IF v < 16777216 \/ v % 2 = 0 THEN v
  ELSE IF (v \div 2) % 2 = 0 THEN v - 1 ELSE v + 1

\* torch.tensor(values, dtype=torch.float32)
tensor(values) == [i \in DOMAIN values |-> Float32(values[i])]

RECURSIVE Get(_, _, _)
\* dict.get(key, default)
Get(items, key, default) ==
  IF items = <<>> THEN default
  ELSE IF Head(items)[1] = key THEN Head(items)[2]
  ELSE Get(Tail(items), key, default)

\* neurons.constants.VALIDATOR_DEFAULT_REQUEST_FREQUENCY
VALIDATOR_DEFAULT_REQUEST_FREQUENCY == 35
\* neurons.constants.VALIDATOR_DEFAULT_QUERY_TIMEOUT
VALIDATOR_DEFAULT_QUERY_TIMEOUT == 15

\* the seven fields of the ConfigCache as the process creates them
EmptyCache ==
  [ hotkey_blacklist  |-> {},
    coldkey_blacklist |-> {},
    hotkey_whitelist  |-> {},
    coldkey_whitelist |-> {},
    reward_weights    |-> <<>>,
    request_frequency |-> VALIDATOR_DEFAULT_REQUEST_FREQUENCY,
    query_timeout     |-> VALIDATOR_DEFAULT_QUERY_TIMEOUT ]

(***************************************************************************)
(* State.                                                                  *)
(***************************************************************************)
VARIABLES
  process,          \* "running", or "exited" once os._exit has been called
  is_validator,     \* the node type, background_loop's second parameter
  settled,          \* the registry has settled: from here on it keeps the node
                    \* registered and its calls succeed (SpecLive only)
  metagraph,        \* self.metagraph: the most recently synced snapshot
  pc,               \* where the main thread is in BaseMiner
  miner_index,      \* self.miner_index
  step,             \* loop's local step
  weights,          \* loop's local weights
  uids,             \* loop's local uids
  log,              \* the last line the main thread logged
  axon_serving,     \* the serving boundary is open (self.axon not stopped)
  waited,           \* history: a sleep of 60 s or more has ended since the
                    \* last call of set_weights (TRUE before the first call)
  bgpc,             \* where the timer thread is in background_loop
  background_steps, \* self.background_steps
  finished,         \* the timer's finished event (set by Timer.cancel)
  storage_client,   \* self.storage_client has been created
  cache,            \* the seven policy fields of self
  cache_before,     \* history: cache as it was when the current tick began
  tick              \* history: what the sub-tasks of the current tick did
                    \* and fetched, and whether it began after Terminated

main_vars == <<pc, miner_index, step, weights, uids, log, axon_serving, waited>>
timer_vars ==
  <<bgpc, background_steps, finished, storage_client, cache, cache_before, tick>>
vars == <<process, is_validator, settled, metagraph, main_vars, timer_vars>>

\* the value of self.background_steps when the timer is started
InitialBackgroundSteps == 1

\* no sub-task of the tick has run yet.  The fetched files are kept as <<>>
\* (not fetched) or <<f>>
NewTick ==
  [ dereg |-> "none", refresh |-> "none", cleanup |-> "none",
    fetch_failed |-> FALSE,
    blacklist |-> <<>>, whitelist |-> <<>>, weight_file |-> <<>>,
    after_terminated |-> FALSE ]

\* the state after construction: the metagraph has been created from the
\* registry, the main thread enters loop_until_registered (a validator's main
\* loop is not BaseMiner's and is left out), the timer has not fired yet
Init ==
  /\ process = "running"
  /\ is_validator \in BOOLEAN
  /\ settled = FALSE
  /\ metagraph \in Snapshots
  /\ pc = IF is_validator THEN "absent" ELSE "lur_check"
  /\ miner_index = None
  /\ step = 0
  /\ weights = <<>>
  /\ uids = <<>>
  /\ log = "none"
  /\ axon_serving = TRUE
  /\ waited = TRUE
  /\ bgpc = "start"
  /\ background_steps = InitialBackgroundSteps
  /\ finished = FALSE
  /\ storage_client = FALSE
  /\ cache = EmptyCache
  /\ cache_before = EmptyCache
  /\ tick = NewTick

(***************************************************************************)
(* The main thread: BaseMiner.loop_until_registered, then BaseMiner.loop.  *)
(***************************************************************************)
\* the statements of loop that lie inside its try block (lines 194-226)
TryBody ==
  {"telemetry", "build_weights", "assign_weight", "read_uids", "set_weights",
   "weights_set", "step_inc", "sleep_60"}

\* the statements of the two loops that lie outside any try block
Unguarded ==
  {"lur_check", "lur_sleep", "lur_sync", "check", "backoff", "resync", "sleep_30"}

\* base.py 70-81: one poll of loop_until_registered
lur_check ==
  /\ process = "running" /\ pc = "lur_check"
  /\ LET index == get_miner_index(metagraph) IN
       IF index # None
       THEN /\ miner_index' = index
            /\ log' = "registered"
            /\ pc' = "check"
       ELSE /\ miner_index' = miner_index
            /\ log' = "not_registered"
            /\ pc' = "lur_sleep"
  /\ UNCHANGED <<step, weights, uids, axon_serving, waited>>
  /\ UNCHANGED <<process, is_validator, settled, metagraph, timer_vars>>

\* base.py 82: time.sleep(120) in loop_until_registered
lur_sleep ==
  /\ process = "running" /\ pc = "lur_sleep"
  /\ pc' = "lur_sync"
  /\ UNCHANGED <<miner_index, step, weights, uids, log, axon_serving, waited>>
  /\ UNCHANGED <<process, is_validator, settled, metagraph, timer_vars>>

\* mutant of lur_sync: the next poll comes without the sync of line 83
lur_sync_without_sync ==
  /\ process = "running" /\ pc = "lur_sync"
  /\ metagraph' = metagraph
  /\ pc' = "lur_check"
  /\ UNCHANGED <<miner_index, step, weights, uids, log, axon_serving, waited>>
  /\ UNCHANGED <<process, is_validator, settled, timer_vars>>

\* base.py 83: self.metagraph.sync(lite=True); nothing catches its error
lur_sync ==
  /\ process = "running" /\ pc = "lur_sync"
  /\ \/ /\ metagraph' \in Snapshots
        /\ pc' = "lur_check"
     \/ /\ metagraph' = metagraph
        /\ pc' = "unwound_error"
  /\ UNCHANGED <<miner_index, step, weights, uids, log, axon_serving, waited>>
  /\ UNCHANGED <<process, is_validator, settled, timer_vars>>

\* mutant of check: the telemetry and the submission are due at every step
check_every_step ==
  /\ process = "running" /\ pc = "check"
  /\ miner_index' = get_miner_index(metagraph)
  /\ IF miner_index' = None
     THEN /\ log' = "not_registered"
          /\ pc' = "backoff"
     ELSE /\ log' = log
          /\ pc' = "telemetry"
  /\ UNCHANGED <<step, weights, uids, axon_serving, waited>>
  /\ UNCHANGED <<process, is_validator, settled, metagraph, timer_vars>>

\* base.py 183-195: check_still_registered, the branch on it and, when
\* registered, the test step % 5 == 0 that opens the try block
check ==
  /\ process = "running" /\ pc = "check"
  /\ miner_index' = get_miner_index(metagraph)
  /\ IF miner_index' = None
     THEN /\ log' = "not_registered"
          /\ pc' = "backoff"
     ELSE /\ log' = log
          /\ pc' = IF step % 5 = 0 THEN "telemetry" ELSE "step_inc"
  /\ UNCHANGED <<step, weights, uids, axon_serving, waited>>
  /\ UNCHANGED <<process, is_validator, settled, metagraph, timer_vars>>

\* base.py 187: time.sleep(120) of the unregistered branch
backoff ==
  /\ process = "running" /\ pc = "backoff"
  /\ pc' = "resync"
  /\ waited' = TRUE
  /\ UNCHANGED <<miner_index, step, weights, uids, log, axon_serving>>
  /\ UNCHANGED <<process, is_validator, settled, metagraph, timer_vars>>

\* base.py 190-191: self.metagraph.sync(lite=True); continue.  The call is
\* outside the try block, so its error leaves loop
resync ==
  /\ process = "running" /\ pc = "resync"
  /\ \/ /\ metagraph' \in Snapshots
        /\ pc' = "check"
     \/ /\ metagraph' = metagraph
        /\ pc' = "unwound_error"
  /\ UNCHANGED <<miner_index, step, weights, uids, log, axon_serving, waited>>
  /\ UNCHANGED <<process, is_validator, settled, timer_vars>>

\* mutant of caught: the traceback is logged and the error raised again
caught_and_raised ==
  /\ log' = "error"
  /\ pc' = "unwound_error"
  /\ UNCHANGED <<miner_index, step, weights, uids, axon_serving>>

\* base.py 234-236: except Exception: log the traceback; continue
caught ==
  /\ log' = "error"
  /\ pc' = "check"
  /\ UNCHANGED <<miner_index, step, weights, uids, axon_serving>>

\* base.py 197-210: the telemetry line reads the metric vectors of the
\* current snapshot at self.miner_index (IndexError when out of range), then
\* "Settings weights." is logged
telemetry ==
  /\ process = "running" /\ pc = "telemetry"
  /\ IF InRange(miner_index, metagraph)
     THEN /\ log' = "settings_weights"
          /\ pc' = "build_weights"
          /\ UNCHANGED <<miner_index, step, weights, uids, axon_serving, waited>>
     ELSE caught /\ waited' = waited
  /\ UNCHANGED <<process, is_validator, settled, metagraph, timer_vars>>

\* base.py 212: weights = [0.0] * len(self.metagraph.uids)
build_weights ==
  /\ process = "running" /\ pc = "build_weights"
  /\ weights' = Zeros(Len(metagraph))
  /\ pc' = "assign_weight"
  /\ UNCHANGED <<miner_index, step, uids, log, axon_serving, waited>>
  /\ UNCHANGED <<process, is_validator, settled, metagraph, timer_vars>>

\* base.py 213: weights[self.miner_index] = 1.0 (IndexError when out of range)
assign_weight ==
  /\ process = "running" /\ pc = "assign_weight"
  /\ IF InRange(miner_index, weights)
     THEN /\ weights' = SetOne(weights, miner_index)
          /\ pc' = "read_uids"
          /\ UNCHANGED <<miner_index, step, uids, log, axon_serving, waited>>
     ELSE caught /\ waited' = waited
  /\ UNCHANGED <<process, is_validator, settled, metagraph, timer_vars>>

\* base.py 215: uids = self.metagraph.uids
read_uids ==
  /\ process = "running" /\ pc = "read_uids"
  /\ uids' = metagraph
  /\ pc' = "set_weights"
  /\ UNCHANGED <<miner_index, step, weights, log, axon_serving, waited>>
  /\ UNCHANGED <<process, is_validator, settled, metagraph, timer_vars>>

\* base.py 217-222: self.subtensor.set_weights(weights=weights, uids=uids)
\* returns, or raises and the except clause runs; either way a submission
\* has been attempted
set_weights ==
  /\ process = "running" /\ pc = "set_weights"
  /\ waited' = FALSE
  /\ \/ /\ pc' = "weights_set"
        /\ UNCHANGED <<miner_index, step, weights, uids, log, axon_serving>>
     \/ caught
  /\ UNCHANGED <<process, is_validator, settled, metagraph, timer_vars>>

\* base.py 223: output_log("Weights set.") after the submission
weights_set ==
  /\ process = "running" /\ pc = "weights_set"
  /\ log' = "weights_set"
  /\ pc' = "step_inc"
  /\ UNCHANGED <<miner_index, step, weights, uids, axon_serving, waited>>
  /\ UNCHANGED <<process, is_validator, settled, metagraph, timer_vars>>

\* base.py 225: step += 1; the locals of the submission are dead from here on
step_inc ==
  /\ process = "running" /\ pc = "step_inc"
  /\ step' = step + 1
  /\ weights' = <<>>
  /\ uids' = <<>>
  /\ pc' = "sleep_60"
  /\ UNCHANGED <<miner_index, log, axon_serving, waited>>
  /\ UNCHANGED <<process, is_validator, settled, metagraph, timer_vars>>

\* base.py 226: time.sleep(60)
sleep_60 ==
  /\ process = "running" /\ pc = "sleep_60"
  /\ pc' = "sleep_30"
  /\ waited' = TRUE
  /\ UNCHANGED <<miner_index, step, weights, uids, log, axon_serving>>
  /\ UNCHANGED <<process, is_validator, settled, metagraph, timer_vars>>

\* base.py 238: time.sleep(30)
sleep_30 ==
  /\ process = "running" /\ pc = "sleep_30"
  /\ pc' = "check"
  /\ UNCHANGED <<miner_index, step, weights, uids, log, axon_serving, waited>>
  /\ UNCHANGED <<process, is_validator, settled, metagraph, timer_vars>>

\* the operator's interrupt raises KeyboardInterrupt in the main thread at the
\* statement it is executing.  base.py 229-232 handles it inside the try
\* block only: self.axon.stop(), the notice, break.  Anywhere else nothing
\* catches it and the main thread unwinds with neither
KeyboardInterrupt ==
  /\ process = "running" /\ pc \in TryBody \cup Unguarded
  /\ IF pc \in TryBody
     THEN /\ axon_serving' = FALSE
          /\ log' = "killed"
          /\ pc' = "terminated"
     ELSE /\ pc' = "unwound_interrupt"
          /\ UNCHANGED <<axon_serving, log>>
  /\ UNCHANGED <<miner_index, step, weights, uids, waited>>
  /\ UNCHANGED <<process, is_validator, settled, metagraph, timer_vars>>

(***************************************************************************)
(* The timer thread: BackgroundTimer.run calls background_loop once at     *)
(* once and then once per interval.  A tick is one call of                 *)
(* background_loop; its three sub-tasks are gated on self.background_steps.*)
(***************************************************************************)
\* utils.py 210: the period of the artifact cleanup
CleanupEvery == 300

\* mutant of DeregCheckDue: the check is due on the first tick as well
DeregCheckDue_every_tick(s) == s % 1 = 0

\* utils.py 98: the gate of the deregistration check
DeregCheckDue(s) == s % 1 = 0 /\ s > 1

\* utils.py 125: the gate of the config refresh
RefreshDue(s) == s % 1 = 0

\* mutant of CleanupDue: the period counted from the first tick
CleanupDue_after_first(s) == s = 1 \/ (s - 1) % CleanupEvery = 0

\* utils.py 210: the gate of the artifact cleanup
CleanupDue(s) == s = 1 \/ s % CleanupEvery = 0

\* where a tick goes once its config refresh is over (utils.py 210, 237)
AfterRefresh(s) == IF CleanupDue(s) THEN "cleanup" ELSE "advance"

\* where a tick goes once its deregistration check is over (utils.py 125)
AfterDereg(s) == IF RefreshDue(s) THEN "blacklists" ELSE AfterRefresh(s)

\* the number of the current tick, counting the first call as 1
Tick == background_steps - InitialBackgroundSteps + 1

\* the set of the identities of a snapshot
Hotkeys(snapshot) == { snapshot[i] : i \in DOMAIN snapshot }

\* mutant of BackgroundTimer_run: the loop of line 85 goes on whatever
\* finished is
BackgroundTimer_run_whatever_finished ==
  /\ process = "running"
  /\ bgpc \in {"start", "waiting"}
  /\ tick' = [NewTick EXCEPT !.after_terminated = (pc = "terminated")]
  /\ cache_before' = cache
  /\ bgpc' = IF DeregCheckDue(background_steps) THEN "dereg_sync"
             ELSE AfterDereg(background_steps)
  /\ UNCHANGED <<background_steps, finished, storage_client, cache>>
  /\ UNCHANGED <<process, is_validator, settled, metagraph, main_vars>>

\* utils.py 83-86 and 93-98: run calls background_loop once at once,
\* whatever finished is (line 84), and then once after each interval unless
\* finished is set (lines 85-86); the call starts with the gate of the first
\* sub-task
BackgroundTimer_run ==
  /\ process = "running"
  /\ (bgpc = "start" \/ (bgpc = "waiting" /\ ~finished))
  /\ tick' = [NewTick EXCEPT !.after_terminated = (pc = "terminated")]
  /\ cache_before' = cache
  /\ bgpc' = IF DeregCheckDue(background_steps) THEN "dereg_sync"
             ELSE AfterDereg(background_steps)
  /\ UNCHANGED <<background_steps, finished, storage_client, cache>>
  /\ UNCHANGED <<process, is_validator, settled, metagraph, main_vars>>

\* threading.Timer.cancel sets the finished event
cancel ==
  /\ process = "running" /\ ~finished
  /\ finished' = TRUE
  /\ UNCHANGED <<bgpc, background_steps, storage_client, cache, cache_before, tick>>
  /\ UNCHANGED <<process, is_validator, settled, metagraph, main_vars>>

\* utils.py 99-103 and 119-122: self.metagraph.sync(); its error is logged
\* and the tick goes on
deregistration_sync ==
  /\ process = "running" /\ bgpc = "dereg_sync"
  /\ \/ /\ metagraph' \in Snapshots
        /\ bgpc' = "dereg_test"
        /\ tick' = tick
     \/ /\ metagraph' = metagraph
        /\ tick' = [tick EXCEPT !.dereg = "failed"]
        /\ bgpc' = AfterDereg(background_steps)
  /\ UNCHANGED <<background_steps, finished, storage_client, cache, cache_before>>
  /\ UNCHANGED <<process, is_validator, settled, main_vars>>

\* mutant of deregistration_test: the absence is logged and the tick goes on
deregistration_test_logs_only ==
  /\ process = "running" /\ bgpc = "dereg_test"
  /\ process' = process
  /\ tick' = [tick EXCEPT !.dereg =
                IF Me \notin Hotkeys(metagraph) THEN "absent" ELSE "ok"]
  /\ bgpc' = AfterDereg(background_steps)
  /\ UNCHANGED <<background_steps, finished, storage_client, cache, cache_before>>
  /\ UNCHANGED <<is_validator, settled, metagraph, main_vars>>

\* utils.py 104-118: the identity is looked up in the snapshot; when it is
\* absent _thread.interrupt_main() and os._exit(0) end the process.  The two
\* calls are one step: what the main thread can do between them, handle the
\* interrupt, is the step KeyboardInterrupt, which it can take before the
\* test as well
deregistration_test ==
  /\ process = "running" /\ bgpc = "dereg_test"
  /\ IF Me \notin Hotkeys(metagraph)
     THEN /\ process' = "exited"
          /\ tick' = [tick EXCEPT !.dereg = "absent"]
          /\ bgpc' = bgpc
     ELSE /\ process' = process
          /\ tick' = [tick EXCEPT !.dereg = "ok"]
          /\ bgpc' = AfterDereg(background_steps)
  /\ UNCHANGED <<background_steps, finished, storage_client, cache, cache_before>>
  /\ UNCHANGED <<is_validator, settled, metagraph, main_vars>>

\* mutant of refresh_failed: the cleanup shares the try block of the refresh
refresh_failed_skips_cleanup ==
  /\ tick' = [tick EXCEPT !.refresh = "failed", !.fetch_failed = TRUE]
  /\ bgpc' = "advance"
  /\ cache' = cache

\* utils.py 204-207: except Exception of the config refresh
refresh_failed ==
  /\ tick' = [tick EXCEPT !.refresh = "failed", !.fetch_failed = TRUE]
  /\ bgpc' = AfterRefresh(background_steps)
  /\ cache' = cache

\* utils.py 128-151: the storage client is created if needed, then the
\* blacklist is fetched; a file that is None or empty is skipped
update_blacklists ==
  /\ process = "running" /\ bgpc = "blacklists"
  /\ \/ /\ ~storage_client
        /\ storage_client' = FALSE
        /\ refresh_failed
     \/ /\ storage_client' = TRUE
        /\ \E f \in ListFiles :
             IF ~Truthy(f)
             THEN /\ cache' = cache
                  /\ tick' = [tick EXCEPT !.fetch_failed = @ \/ ~f.file,
                                          !.blacklist = <<f>>]
                  /\ bgpc' = "whitelists"
             ELSE IF TypeMissing(f)
             THEN refresh_failed
             ELSE /\ cache' = [cache EXCEPT
                                 !.hotkey_blacklist = KeysOfType(f, "hotkey"),
                                 !.coldkey_blacklist = KeysOfType(f, "coldkey")]
                  /\ tick' = [tick EXCEPT !.blacklist = <<f>>]
                  /\ bgpc' = "whitelists"
  /\ UNCHANGED <<background_steps, finished, cache_before>>
  /\ UNCHANGED <<process, is_validator, settled, metagraph, main_vars>>

\* utils.py 153-175: the whitelist is fetched; a miner's refresh ends here
update_whitelists ==
  /\ process = "running" /\ bgpc = "whitelists"
  /\ \E f \in ListFiles :
       IF Truthy(f) /\ TypeMissing(f)
       THEN refresh_failed
       ELSE /\ cache' = IF Truthy(f)
                        THEN [cache EXCEPT
                                !.hotkey_whitelist = KeysOfType(f, "hotkey"),
                                !.coldkey_whitelist = KeysOfType(f, "coldkey")]
                        ELSE cache
            /\ IF is_validator
               THEN /\ tick' = [tick EXCEPT !.fetch_failed = @ \/ ~f.file,
                                            !.whitelist = <<f>>]
                    /\ bgpc' = "weights"
               ELSE /\ tick' = [tick EXCEPT !.fetch_failed = @ \/ ~f.file,
                                            !.whitelist = <<f>>,
                                            !.refresh = "ok"]
                    /\ bgpc' = AfterRefresh(background_steps)
  /\ UNCHANGED <<background_steps, finished, storage_client, cache_before>>
  /\ UNCHANGED <<process, is_validator, settled, metagraph, main_vars>>

\* utils.py 177-186: the validator's weight file; None has no items()
update_weights ==
  /\ process = "running" /\ bgpc = "weights"
  /\ \E f \in WeightFiles :
       IF ~f.file
       THEN refresh_failed
       ELSE /\ cache' = [cache EXCEPT !.reward_weights = tensor(Unmanual(f.items))]
            /\ tick' = [tick EXCEPT !.weight_file = <<f>>]
            /\ bgpc' = "settings"
  /\ UNCHANGED <<background_steps, finished, storage_client, cache_before>>
  /\ UNCHANGED <<process, is_validator, settled, metagraph, main_vars>>

\* utils.py 189-202: the validator's settings file; None has no get()
update_settings ==
  /\ process = "running" /\ bgpc = "settings"
  /\ \E f \in SettingsFiles :
       IF ~f.file
       THEN refresh_failed
       ELSE /\ cache' = [cache EXCEPT
                           !.request_frequency =
                              Get(f.items, "request_frequency",
                                  VALIDATOR_DEFAULT_REQUEST_FREQUENCY),
                           !.query_timeout =
                              Get(f.items, "query_timeout",
                                  VALIDATOR_DEFAULT_QUERY_TIMEOUT)]
            /\ tick' = [tick EXCEPT !.refresh = "ok"]
            /\ bgpc' = AfterRefresh(background_steps)
  /\ UNCHANGED <<background_steps, finished, storage_client, cache_before>>
  /\ UNCHANGED <<process, is_validator, settled, metagraph, main_vars>>

\* utils.py 211-235: the artifact cleanup; its error is logged
clean_up ==
  /\ process = "running" /\ bgpc = "cleanup"
  /\ \E outcome \in {"ok", "failed"} : tick' = [tick EXCEPT !.cleanup = outcome]
  /\ bgpc' = "advance"
  /\ UNCHANGED <<background_steps, finished, storage_client, cache, cache_before>>
  /\ UNCHANGED <<process, is_validator, settled, metagraph, main_vars>>

\* utils.py 237: self.background_steps += 1 ends the tick
advance ==
  /\ process = "running" /\ bgpc = "advance"
  /\ background_steps' = background_steps + 1
  /\ bgpc' = "waiting"
  /\ UNCHANGED <<finished, storage_client, cache, cache_before, tick>>
  /\ UNCHANGED <<process, is_validator, settled, metagraph, main_vars>>

(***************************************************************************)
(* Specifications.                                                         *)
(***************************************************************************)
\* the steps of the main thread, the step counter followed up to MaxStep
MainNext ==
  \/ lur_check \/ lur_sleep \/ lur_sync
  \/ check \/ backoff \/ resync
  \/ telemetry \/ build_weights \/ assign_weight \/ read_uids
  \/ set_weights \/ weights_set
  \/ (step < MaxStep /\ step_inc)
  \/ sleep_60 \/ sleep_30
  \/ KeyboardInterrupt

\* the steps of a tick of the timer thread
TickNext ==
  \/ deregistration_sync \/ deregistration_test
  \/ update_blacklists \/ update_whitelists
  \/ update_weights \/ update_settings
  \/ clean_up \/ advance

\* the main thread and the timer thread of one node, interleaved statement
\* by statement
Next ==
  \/ MainNext
  \/ (background_steps <= MaxBackgroundSteps /\ BackgroundTimer_run)
  \/ cancel
  \/ TickNext

Spec == Init /\ [][Next]_vars

\* the state after the construction of a miner
InitMiner == Init /\ is_validator = FALSE

\* the timer thread of a miner alone, followed over MaxTimerSteps ticks
TimerNext ==
  \/ (background_steps <= MaxTimerSteps /\ BackgroundTimer_run)
  \/ deregistration_sync \/ deregistration_test
  \/ update_blacklists \/ update_whitelists
  \/ clean_up \/ advance

SpecTimer == InitMiner /\ [][TimerNext]_vars

\* the main thread alone: the registry changes only where loop itself syncs
SpecMain == InitMiner /\ [][MainNext]_vars

(***************************************************************************)
(* The specification for liveness.  At some step the registry settles;     *)
(* from then on every sync succeeds and returns a snapshot with the node's *)
(* identity, set_weights succeeds, and the operator does not interrupt.    *)
(* Threads are scheduled fairly and a sleep ends, so the main thread takes *)
(* its next step whenever it has one.                                      *)
(***************************************************************************)
\* the registry settles
settle ==
  /\ process = "running" /\ ~settled
  /\ settled' = TRUE
  /\ UNCHANGED <<process, is_validator, metagraph, main_vars, timer_vars>>

\* what a settled registry leaves of a step
Succeeds ==
  /\ pc' # pc => pc' \notin {"unwound_error", "unwound_interrupt", "terminated"}
  /\ (pc \in {"lur_sync", "resync"} /\ pc' # pc) => Me \in Hotkeys(metagraph')
  /\ (bgpc = "dereg_sync" /\ bgpc' # bgpc) =>
       (bgpc' = "dereg_test" /\ Me \in Hotkeys(metagraph'))
  /\ (pc = "set_weights" /\ pc' # pc) => pc' = "weights_set"

\* the ConfigStore is out of reach: a fetch returns None or the storage
\* client cannot be created.  The main thread reads none of what a fetch
\* writes, so for its progress one outcome of the fetches stands for all
ConfigStoreDown ==
  /\ cache' = cache
  /\ tick'.blacklist \in {<<>>, <<NoFile>>}
  /\ tick'.whitelist \in {<<>>, <<NoFile>>}

\* the steps of the main thread under the registry as it is
LiveMain == MainNext /\ (settled => Succeeds)

\* the steps of a miner's timer thread under the registry as it is
LiveTimer ==
  /\ \/ (background_steps <= MaxBackgroundSteps /\ BackgroundTimer_run)
     \/ deregistration_sync \/ deregistration_test
     \/ update_blacklists \/ update_whitelists
     \/ clean_up \/ advance
  /\ ConfigStoreDown
  /\ (settled => Succeeds)

LiveNext == settle \/ LiveMain \/ LiveTimer

SpecLive == InitMiner /\ [][LiveNext]_vars /\ WF_vars(LiveMain)

(***************************************************************************)
(* C1.  Every weight submission of the lifecycle loop carries an identity  *)
(* list of some length n in which the node has the index k =               *)
(* self.miner_index, and a weight vector of length n that is 1.0 at k and  *)
(* 0.0 everywhere else.                                                    *)
(***************************************************************************)
\* set_weights has just returned: weights and uids are what was submitted
Submitted == pc = "weights_set"

SelfWeightVector ==
  (Submitted /\ Me \in Hotkeys(uids)) =>
    /\ InRange(miner_index, uids)
    /\ uids[miner_index + 1] = Me
    /\ Len(weights) = Len(uids)
    /\ \A i \in 1..Len(weights) :
         weights[i] = IF i = miner_index + 1 THEN 1 ELSE 0

(***************************************************************************)
(* C2.  When a fetch or a parse of the config refresh of a tick has        *)
(* failed, every field of the cache reads, once the refresh of that tick   *)
(* is over, as it read before the tick.                                    *)
(***************************************************************************)
\* the config refresh of the current tick is over
RefreshOver == bgpc \in {"cleanup", "advance", "waiting"}

FailedRefreshKeepsCache ==
  (RefreshOver /\ tick.fetch_failed) => cache = cache_before

(***************************************************************************)
(* C3.  In every state a reader finds the cache either as it was before    *)
(* the current tick or as one complete successful refresh left it: never   *)
(* part of a refresh.                                                      *)
(***************************************************************************)
OneGeneration ==
  \/ cache = cache_before
  \/ tick.refresh = "ok" /\ ~tick.fetch_failed

(***************************************************************************)
(* C4.  When the deregistration check of a tick finds the identity absent  *)
(* from the snapshot, that step ends the process, before the config        *)
(* refresh and the cleanup of that tick; the process is ended by nothing   *)
(* else, and once it is ended no thread takes a further step.              *)
(***************************************************************************)
DeregistrationTerminates ==
  [][ /\ process = "exited" => vars' = vars
      /\ (bgpc = "dereg_test" /\ tick' # tick /\ Me \notin Hotkeys(metagraph)) =>
           /\ process' = "exited"
           /\ tick'.refresh = "none" /\ tick'.cleanup = "none"
           /\ cache' = cache_before
           /\ background_steps' = background_steps
      /\ (process = "running" /\ process' = "exited") =>
           (bgpc = "dereg_test" /\ Me \notin Hotkeys(metagraph))
    ]_vars

\* the process has been ended by the deregistration check
Deregistered == process = "exited" /\ tick.dereg = "absent"

(***************************************************************************)
(* C5.  Counting the ticks of the timer thread from 1, the artifact        *)
(* cleanup runs on tick 1 and on the ticks 300, 600, ... (in the claim:    *)
(* 301, 601, ...) and on no other tick.                                    *)
(***************************************************************************)
\* the timer thread has done all the sub-tasks of the current tick
TickDone == bgpc = "advance"

\* the claim as it stands: tick 1 and every 300th tick after the first
CleanupOn1And301 ==
  TickDone => (tick.cleanup # "none" <=> (Tick = 1 \/ (Tick - 1) % 300 = 0))

\* the amended claim: tick 1 and the ticks that are multiples of 300
CleanupOn1And300 ==
  TickDone => (tick.cleanup # "none" <=> (Tick = 1 \/ Tick % 300 = 0))

\* tick 300 has run the cleanup
CleanupAtTick300 == TickDone /\ Tick = 300 /\ tick.cleanup # "none"

(***************************************************************************)
(* C6.  While the snapshot lacks the node's identity, get_miner_index      *)
(* returns None, and a step of the main thread that polls (in              *)
(* loop_until_registered or in loop) keeps it polling: the index is None   *)
(* after it, the step counter and the submission are untouched and nothing *)
(* but the "not registered" line is logged.                                *)
(***************************************************************************)
\* the statements of the two loops that poll the registration
Polling == {"lur_check", "lur_sleep", "lur_sync", "check", "backoff", "resync"}

StaysUnregistered ==
  [][ (Me \notin Hotkeys(metagraph) /\ Me \notin Hotkeys(metagraph')) =>
        /\ get_miner_index(metagraph) = None
        /\ ( /\ pc \in Polling
             /\ main_vars' # main_vars
             /\ pc' \notin {"unwound_error", "unwound_interrupt"} ) =>
               /\ pc' \in Polling
               /\ miner_index' = None
               /\ step' = step /\ weights' = weights /\ uids' = uids
               /\ log' \in {log, "not_registered"}
               /\ axon_serving' = axon_serving
    ]_vars

\* loop, registered before, polls a snapshot without the identity
UnregisteredInLoop ==
  /\ pc = "backoff" /\ log = "not_registered" /\ miner_index = None
  /\ step > 0 /\ Me \notin Hotkeys(metagraph)

(***************************************************************************)
(* C7.  No error of an external collaborator ends a thread: the main       *)
(* thread is never unwound by an error, and the process is ended only by   *)
(* a detected deregistration.                                              *)
(***************************************************************************)
ErrorsStayInTheirTick ==
  /\ pc # "unwound_error"
  /\ process = "exited" => tick.dereg = "absent"

(***************************************************************************)
(* C8.  An operator interrupt, at whichever statement of loop it reaches   *)
(* the main thread, stops the serving boundary, logs the notice and leaves *)
(* loop in Terminated; the main thread does nothing after it.              *)
(***************************************************************************)
\* the statements of loop (base.py 179-238)
InLoop == TryBody \cup {"check", "backoff", "resync", "sleep_30"}

InterruptIsGraceful ==
  [][ /\ (pc \in InLoop /\ pc' \in {"terminated", "unwound_interrupt"}) =>
           (pc' = "terminated" /\ ~axon_serving' /\ log' = "killed")
      /\ (pc \in {"terminated", "unwound_interrupt"}) => main_vars' = main_vars
    ]_vars

(***************************************************************************)
(* C9.  An error raised inside the try block of loop is caught: the main   *)
(* thread is not unwound, the index stays what it was (an index, not       *)
(* None), the step counter keeps its value and the next iteration begins.  *)
(***************************************************************************)
BodyErrorCaught ==
  [][ (pc \in TryBody) =>
        /\ pc' # "unwound_error"
        /\ pc' = "check" =>
             /\ log' = "error"
             /\ miner_index' = miner_index /\ miner_index' # None
             /\ step' = step
             /\ axon_serving' = axon_serving
    ]_vars

\* an error of the fifth step's submission has been caught
ErrorCaught ==
  pc = "check" /\ log = "error" /\ miner_index # None /\ step = 5

(***************************************************************************)
(* C10.  A failure of one sub-task of a tick leaves the state of the       *)
(* others alone and the tick goes on with the next sub-task that is due;   *)
(* the tick ends by adding exactly one to background_steps, having run     *)
(* the refresh and, when due, the cleanup; only a detected deregistration  *)
(* ends the process.                                                       *)
(***************************************************************************)
FaultIsolated ==
  [][ /\ (tick.dereg = "none" /\ tick'.dereg = "failed") =>
           /\ bgpc' = "blacklists"
           /\ cache' = cache /\ process' = "running"
      /\ (tick.refresh = "none" /\ tick'.refresh = "failed") =>
           /\ bgpc' = IF CleanupDue(background_steps) THEN "cleanup" ELSE "advance"
           /\ metagraph' = metagraph /\ process' = "running"
      /\ (tick.cleanup = "none" /\ tick'.cleanup = "failed") =>
           /\ bgpc' = "advance"
           /\ cache' = cache /\ metagraph' = metagraph /\ process' = "running"
      /\ (bgpc = "advance" /\ bgpc' # "advance") =>
           /\ background_steps' = background_steps + 1
           /\ tick.refresh \in {"ok", "failed"}
           /\ CleanupDue(background_steps) => tick.cleanup \in {"ok", "failed"}
      /\ (process = "running" /\ process' = "exited") => tick'.dereg = "absent"
    ]_vars

\* a tick whose refresh failed has run its cleanup all the same
CleanupAfterFailedRefresh ==
  TickDone /\ tick.refresh = "failed" /\ tick.cleanup \in {"ok", "failed"}

(***************************************************************************)
(* C11.  self.miner_index is None if and only if the node's identity is    *)
(* absent from the snapshot synced last, whichever thread synced it.       *)
(* Stated for the states in which loop holds the result of a registration  *)
(* check (everywhere in loop but at the check itself, which is about to    *)
(* recompute the index).                                                   *)
(***************************************************************************)
IndexAgreesWithSnapshot ==
  (process = "running" /\ pc \in InLoop \ {"check"}) =>
    (miner_index = None <=> Me \notin Hotkeys(metagraph))

(***************************************************************************)
(* C12.  Every iteration of loop ends with the 30 s sleep of line 238: the *)
(* main thread comes to the registration check of the next iteration from  *)
(* that sleep and from nowhere else in loop, whichever branch the          *)
(* iteration took.                                                         *)
(***************************************************************************)
TrailingDelayEveryIteration ==
  [][ (pc \in InLoop /\ pc' # pc /\ pc' = "check") => pc = "sleep_30" ]_vars

(***************************************************************************)
(* C13.  A failed submission is followed by the 60 s tick interval before  *)
(* the next one: whenever set_weights is about to be called, a sleep of    *)
(* 60 s or more has ended since the call before it.                        *)
(***************************************************************************)
DelayBetweenSubmissions == pc = "set_weights" => waited

(***************************************************************************)
(* C14.  The deregistration check of the timer thread (the resync of the   *)
(* snapshot, then the membership test) runs on every tick after the first  *)
(* and on the first tick it is skipped.                                    *)
(***************************************************************************)
\* the current tick is past the place of its deregistration check
PastDeregCheck ==
  bgpc \in {"blacklists", "whitelists", "weights", "settings", "cleanup", "advance"}

DeregCheckAfterFirstTick ==
  /\ PastDeregCheck => (tick.dereg \in {"ok", "failed"} <=> Tick > 1)
  /\ bgpc \in {"dereg_sync", "dereg_test"} => Tick > 1

\* the second tick has resynced the snapshot and found the identity in it
DeregCheckOnSecondTick ==
  TickDone /\ Tick = 2 /\ tick.dereg = "ok" /\ Me \in Hotkeys(metagraph)

(***************************************************************************)
(* C15.  The reward-weight vector derived from a fetched weight file is    *)
(* the values of the file in the order of its keys, without the entries    *)
(* whose label contains "manual": no other entry is missing, none is added *)
(* and none has changed its place; the file {a: 1.0, manual_b: 2.0,        *)
(* c: 3.0} gives [1.0, 3.0].  The vector is a float32 tensor, so a value   *)
(* stands in it as the 32-bit float it converts to.                        *)
(***************************************************************************)
\* the weight file of the claim's example
ExampleWeightFile == File(<< <<LabelA, 1>>, <<LabelManualB, 2>>, <<LabelC, 3>> >>)

\* the label has the letters m, a, n, u, a, l in a row somewhere
HasManual(label) ==
  \E i \in 1..Len(label) :
    /\ i + 5 <= Len(label)
    /\ <<label[i], label[i + 1], label[i + 2], label[i + 3], label[i + 4],
         label[i + 5]>> = <<"m", "a", "n", "u", "a", "l">>

\* the positions of the entries of a file that the filter keeps
Kept(items) == { i \in DOMAIN items : ~HasManual(items[i][1]) }

\* v lists the values of the kept entries, each once, in the file's order
IsProjection(v, items) ==
  \E pos \in [1..Len(v) -> DOMAIN items] :
    /\ \A i, j \in 1..Len(v) : i < j => pos[i] < pos[j]
    /\ { pos[i] : i \in 1..Len(v) } = Kept(items)
    /\ \A i \in 1..Len(v) : v[i] = Float32(items[pos[i]][2])

ManualLabelsFiltered ==
  /\ Len(tick.weight_file) = 1 =>
       IsProjection(cache.reward_weights, tick.weight_file[1].items)
  /\ tick.weight_file = <<ExampleWeightFile>> => cache.reward_weights = <<1, 3>>

\* the example file has been fetched and the vector derived from it
ExampleWeightsDerived ==
  tick.weight_file = <<ExampleWeightFile>> /\ cache.reward_weights = <<1, 3>>

(***************************************************************************)
(* C16.  With the two threads interleaved over self.metagraph, the place   *)
(* at which a submitted weight vector holds 1.0 is a place of the identity *)
(* list submitted with it, and the node's own identity stands there, also  *)
(* when the timer thread has resynced the snapshot between the loop's      *)
(* registration check and its building of the vector.                      *)
(***************************************************************************)
OneAtOwnPosition ==
  (Submitted /\ Me \in Hotkeys(uids)) =>
    \A i \in DOMAIN weights :
      weights[i] = 1 => (i \in DOMAIN uids /\ uids[i] = Me)

(***************************************************************************)
(* C17.  A Registered iteration of loop enters the telemetry and the       *)
(* submission if and only if step is a multiple of 5 at that iteration (so *)
(* the first one, at step 0, does); step grows by exactly one in a         *)
(* Registered iteration that completes without error, at line 225, and not *)
(* at all in an Unregistered iteration or in one whose body raised.        *)
(***************************************************************************)
\* the statements of lines 197-223, the telemetry and the submission
SubmissionBlock ==
  {"telemetry", "build_weights", "assign_weight", "read_uids", "set_weights",
   "weights_set"}

StepCadence ==
  [][ /\ (pc = "check" /\ pc' \in InLoop \ {"check"}) =>
           IF miner_index' = None THEN pc' = "backoff"
           ELSE IF step % 5 = 0 THEN pc' = "telemetry"
           ELSE pc' = "step_inc"
      /\ pc' \in SubmissionBlock => step' % 5 = 0
      /\ step' # step => (pc = "step_inc" /\ step' = step + 1)
      /\ (pc' = "sleep_60" /\ pc # "sleep_60") =>
           (pc = "step_inc" /\ step' = step + 1)
      /\ (pc' = "sleep_30" /\ pc # "sleep_30") => pc = "sleep_60"
      /\ (pc' = "check" /\ pc \in TryBody \cup {"backoff", "resync"}) =>
           step' = step
    ]_vars

\* after four iterations without one, the iteration at step 5 has submitted
FifthStepSubmitted == Submitted /\ step = 5 /\ log = "settings_weights"

(***************************************************************************)
(* C18.  After a config refresh whose blacklist fetch and whitelist fetch  *)
(* both succeeded, the four sets are exactly the identities of the fetched *)
(* blacklist and whitelist whose type is "hotkey" and "coldkey", for every *)
(* fetched mapping, the empty one included (which clears the sets).        *)
(***************************************************************************)
\* the identities of the entries of a fetched mapping whose type is t
IdentitiesOfType(f, t) ==
  { e[1] : e \in { f.items[i] : i \in { j \in 1..Len(f.items) : f.items[j][2] = t } } }

\* the current tick has fetched and parsed both lists
ListsFetched ==
  /\ Len(tick.blacklist) = 1 /\ tick.blacklist[1].file
  /\ Len(tick.whitelist) = 1 /\ tick.whitelist[1].file

ListsPartitioned ==
  ListsFetched =>
    /\ cache.hotkey_blacklist = IdentitiesOfType(tick.blacklist[1], "hotkey")
    /\ cache.coldkey_blacklist = IdentitiesOfType(tick.blacklist[1], "coldkey")
    /\ cache.hotkey_whitelist = IdentitiesOfType(tick.whitelist[1], "hotkey")
    /\ cache.coldkey_whitelist = IdentitiesOfType(tick.whitelist[1], "coldkey")

(***************************************************************************)
(* C19.  Once the registry has settled, an Unregistered loop eventually is *)
(* Registered with the index its identity has in the snapshot, and         *)
(* eventually makes a weight submission; and a Registered loop whose       *)
(* registration check does not find the identity is Unregistered by that   *)
(* very step, which goes to the backoff and not to the submission.         *)
(***************************************************************************)
\* the main thread polls for its registration and has no index
Unregistered == process = "running" /\ pc \in Polling /\ miner_index = None

\* the timer thread has synced a snapshot without the identity and is about
\* to end the process for it
DeregPending == bgpc = "dereg_test" /\ Me \notin Hotkeys(metagraph)

\* the main thread holds the index that its identity has in the snapshot
RegisteredAtIndex ==
  /\ pc \in InLoop /\ miner_index # None
  /\ InRange(miner_index, metagraph) /\ metagraph[miner_index + 1] = Me

RegistersAndSubmits ==
  /\ (settled /\ Unregistered /\ ~DeregPending) ~> RegisteredAtIndex
  /\ (settled /\ Unregistered /\ ~DeregPending /\ step + 4 <= MaxStep) ~> Submitted
  /\ [][ ( /\ pc = "check" /\ pc' \in InLoop \ {"check"}
           /\ miner_index # None /\ Me \notin Hotkeys(metagraph) ) =>
             /\ miner_index' = None /\ pc' = "backoff"
             /\ log' = "not_registered"
             /\ step' = step /\ weights' = weights /\ uids' = uids
       ]_vars

\* under the settled registry the loop, Unregistered in its last iteration,
\* is Registered again
RegisteredAgain ==
  /\ settled /\ step > 0 /\ log = "not_registered"
  /\ pc \in {"telemetry", "step_inc"} /\ RegisteredAtIndex

(***************************************************************************)
(* C20.  BackgroundTimer.run calls the tick function once as soon as it is *)
(* started, without a wait before it, and then once after each interval as *)
(* long as finished is unset: once finished is set no tick starts after a  *)
(* wait.  The interrupt handling of loop does not set finished, so a tick  *)
(* can start after loop has reached Terminated.                            *)
(***************************************************************************)
TimerTicksUntilFinished ==
  /\ [](process = "running" =>
         /\ bgpc = "start" => ENABLED BackgroundTimer_run
         /\ bgpc = "waiting" => (ENABLED BackgroundTimer_run <=> ~finished))
  /\ [][ /\ (bgpc = "start" /\ bgpc' # "start") => bgpc' # "waiting"
         /\ (bgpc = "waiting" /\ bgpc' # "waiting") => ~finished
         /\ (pc # "terminated" /\ pc' = "terminated") => finished' = finished
       ]_vars

\* a tick that began after loop had reached Terminated has done its sub-tasks
TickAfterTerminated ==
  pc = "terminated" /\ tick.after_terminated /\ TickDone /\ ~finished

====
